---------------------------- MODULE Spec2Model ----------------------------
(*
  A model of src/main.py (imgfapdl): the gallery URL resolver
  extract_gallery_id, the memoizing get_gallery_source, the link extractor
  get_image_URLs, download_image and the orchestration in main.

  Strings are sequences of one-character strings, so that slicing
  (query[:4]), splitting (str.split) and substring tests (x in y) are
  computed position by position as Python computes them.
*)
EXTENDS Integers, Sequences, FiniteSets, TLC

VARIABLES
  parts,               \* the components urlstr was written from
  urlstr,              \* the argument of extract_gallery_id / main's urlstr (line 136)
  call,                \* the last completed call: operation, arguments, outcome
  cached_source_code,  \* the module global of line 47: <<>> for None, <<document>>
  trace,               \* every request and filesystem operation so far, in order
  dirs,                \* the directories that exist
  files,               \* the files that exist: a set of [path, data]
  pc,                  \* main's position
  gallery_id,          \* main's local (line 151)
  gallery_name,        \* main's local (line 152)
  image_urls,          \* main's local (line 155)
  done,                \* how many links of image_urls main's loop has finished
  ncalls               \* how many library calls were made (bounds the call sequences)

vars == <<parts, urlstr, call, cached_source_code, trace, dirs, files, pc,
          gallery_id, gallery_name, image_urls, done, ncalls>>

-----------------------------------------------------------------------------
(* Bounds of the model *)

\* most path segments of a generated URL
MaxSegs == 2
\* most query parameters of a generated URL
MaxParams == 2
\* most anchors of a gallery document
MaxAnchors == 3
\* most calls in a sequence of gallery-source calls
MaxCalls == 3
\* most #mainPhoto elements of a photo page
MaxElems == 2

-----------------------------------------------------------------------------
(* Python's str operations, on sequences of characters *)

\* An optional value (one that may be None) is <<>> for None and <<v>> for v.

\* s[i:] for a 0-based i, as a 1-based suffix
Drop(s, n) == SubSeq(s, n + 1, Len(s))

\* s[:n]: slicing never fails, it clips
Take(s, n) == SubSeq(s, 1, IF n < Len(s) THEN n ELSE Len(s))

\* s.startswith(p)
startswith(s, p) == Take(s, Len(p)) = p

\* s.find(c, start) for a one-character c: the 1-based position, 0 for "not found"
RECURSIVE FindFrom(_, _, _)
FindFrom(s, c, i) ==
  IF i > Len(s) THEN 0
  ELSE IF s[i] = c THEN i
  ELSE FindFrom(s, c, i + 1)

find(s, c) == FindFrom(s, c, 1)

\* sub in s
RECURSIVE ContainsFrom(_, _, _)
ContainsFrom(s, sub, i) ==
  IF i + Len(sub) - 1 > Len(s) THEN FALSE
  ELSE IF SubSeq(s, i, i + Len(sub) - 1) = sub THEN TRUE
  ELSE ContainsFrom(s, sub, i + 1)

contains(s, sub) == ContainsFrom(s, sub, 1)

\* s.split(c): always at least one piece; "".split(c) is [""]
RECURSIVE split(_, _)
split(s, c) ==
  LET i == find(s, c)
  IN IF i = 0 THEN <<s>>
     ELSE <<SubSeq(s, 1, i - 1)>> \o split(Drop(s, i), c)

\* s.split(c, 1): the text before the first c and the text after it
split1(s, c) ==
  LET i == find(s, c)
  IN IF i = 0 THEN <<s, <<>>>> ELSE <<SubSeq(s, 1, i - 1), Drop(s, i)>>

\* s.rpartition(c)[2]: the text after the last c, all of s without one
RECURSIVE rpartition2(_, _)
rpartition2(s, c) ==
  LET i == find(s, c)
  IN IF i = 0 THEN s ELSE rpartition2(Drop(s, i), c)

\* c.lower(), for the letters the model's inputs hold in upper case
lowerChar(c) == IF c = "N" THEN "n" ELSE c

lower(s) == [i \in 1..Len(s) |-> lowerChar(s[i])]

Letters ==
  {"a", "b", "c", "d", "e", "f", "g", "h", "i", "j", "k", "l", "m", "n", "o",
   "p", "q", "r", "s", "t", "u", "v", "w", "x", "y", "z", "N"}

Digits == {"0", "1", "2", "3", "4", "5", "6", "7", "8", "9"}

\* urllib.parse.scheme_chars
scheme_chars == Letters \cup Digits \cup {"+", "-", "."}

\* the class \w of Python's re
WordChars == Letters \cup Digits \cup {"_"}

\* the literals of the source
S_http == <<"h", "t", "t", "p", ":", "/", "/">>
S_www_imagefap_com ==
  <<"w", "w", "w", ".", "i", "m", "a", "g", "e", "f", "a", "p", ".", "c", "o", "m">>
S_imagefap_com == <<"i", "m", "a", "g", "e", "f", "a", "p", ".", "c", "o", "m">>
S_gallery == <<"g", "a", "l", "l", "e", "r", "y">>
S_pictures == <<"p", "i", "c", "t", "u", "r", "e", "s">>
S_photo == <<"p", "h", "o", "t", "o">>
S_gallery_php == <<"g", "a", "l", "l", "e", "r", "y", ".", "p", "h", "p">>
S_gid == <<"g", "i", "d", "=">>
S_base ==
  <<"h", "t", "t", "p", "s", ":", "/", "/", "w", "w", "w", ".", "i", "m", "a",
    "g", "e", "f", "a", "p", ".", "c", "o", "m">>

-----------------------------------------------------------------------------
(* urllib.parse.urlparse, as far as main.py reads its result *)

\* urlsplit's scheme rule: the text before the first ':' is the scheme when it
\* is not empty, starts with a letter and holds scheme characters only
HasScheme(url) ==
  LET i == find(url, ":")
  IN /\ i > 1
     /\ url[1] \in Letters
     /\ \A k \in 1..(i - 1) : url[k] \in scheme_chars

\* _splitnetloc(url, 2): the netloc ends at the earliest of '/', '?', '#'
NetlocEnd(url) ==
  LET hits == {k \in 3..Len(url) : url[k] \in {"/", "?", "#"}}
  IN IF hits = {} THEN Len(url) + 1
     ELSE CHOOSE k \in hits : \A j \in hits : k <= j

\* urlparse(url): scheme, netloc, path, query (the fragment is cut off and
\* dropped; the inputs hold no ';', so no params are cut from the path)
urlparse(url) ==
  LET i == find(url, ":")
      scheme == IF HasScheme(url) THEN lower(SubSeq(url, 1, i - 1)) ELSE <<>>
      rest1 == IF HasScheme(url) THEN Drop(url, i) ELSE url
      hasNetloc == Take(rest1, 2) = <<"/", "/">>
      netloc == IF hasNetloc THEN SubSeq(rest1, 3, NetlocEnd(rest1) - 1) ELSE <<>>
      rest2 == IF hasNetloc THEN Drop(rest1, NetlocEnd(rest1) - 1) ELSE rest1
      rest3 == split1(rest2, "#")[1]
      pq == split1(rest3, "?")
  IN [scheme |-> scheme, netloc |-> netloc, path |-> pq[1], query |-> pq[2]]

\* ParseResult.hostname: the netloc without userinfo and port, in lower case;
\* None when that is empty (modelled as the empty string, which is no host)
hostname(url_struct) ==
  lower(split1(rpartition2(url_struct.netloc, "@"), ":")[1])

-----------------------------------------------------------------------------
(* extract_gallery_id, lines 11-44 *)

Return(v) == [kind |-> "return", value |-> v, error |-> "none"]
Raise(e) == [kind |-> "raise", value |-> <<>>, error |-> e]

\* The RuntimeError of line 28 is the spec's InvalidDomainError and that of
\* line 44 its UnrecognizedURLFormatError; path[0] and path[1] raise IndexError.

\* FirstGid with the test "gid=" in query in place of query[:4] == "gid="
RECURSIVE FirstGid_Substring(_)
FirstGid_Substring(queries) ==
  IF queries = <<>> THEN Raise("UnrecognizedURLFormatError")
  ELSE IF contains(Head(queries), S_gid) THEN Return(Drop(Head(queries), 4))
  ELSE FirstGid_Substring(Tail(queries))

\* FirstGid with the loop running to its end, so that the last match is kept
RECURSIVE FirstGid_LastWins(_)
FirstGid_LastWins(queries) ==
  IF queries = <<>> THEN Raise("UnrecognizedURLFormatError")
  ELSE LET later == FirstGid_LastWins(Tail(queries))
       IN IF later.kind = "return" THEN later
          ELSE IF Take(Head(queries), 4) = S_gid
               THEN Return(Drop(Head(queries), 4))
               ELSE later

\* lines 41-43: the first query that starts with "gid=" gives the identity
RECURSIVE FirstGid(_)
FirstGid(queries) ==
  IF queries = <<>> THEN Raise("UnrecognizedURLFormatError")
  ELSE IF Take(Head(queries), 4) = S_gid THEN Return(Drop(Head(queries), 4))
  ELSE FirstGid(Tail(queries))

\* lines 27-28
DomainOk(url_struct) ==
  \/ hostname(url_struct) = S_www_imagefap_com
  \/ hostname(url_struct) = S_imagefap_com

\* lines 30-44
DispatchOnPath(url_struct) ==
  LET path == Tail(split(url_struct.path, "/"))
      queries == split(url_struct.query, "&")
  IN IF path = <<>> THEN Raise("IndexError")
     ELSE IF path[1] \in {S_gallery, S_pictures}
          THEN IF Len(path) < 2 THEN Raise("IndexError") ELSE Return(path[2])
     ELSE IF path[1] \in {S_photo, S_gallery_php}
          THEN FirstGid(queries)
     ELSE Raise("UnrecognizedURLFormatError")

\* lines 22-24
NormalizedUrl(u) ==
  IF urlparse(u).scheme = <<>> THEN urlparse(S_http \o u) ELSE urlparse(u)

\* extract_gallery_id with the path dispatch made before the domain check
extract_gallery_id_DispatchFirst(u) ==
  LET url_struct == NormalizedUrl(u)
      r == DispatchOnPath(url_struct)
  IN IF r.kind = "return" THEN r
     ELSE IF ~DomainOk(url_struct) THEN Raise("InvalidDomainError")
     ELSE r

extract_gallery_id(u) ==
  LET url_struct == NormalizedUrl(u)
  IN IF ~DomainOk(url_struct) THEN Raise("InvalidDomainError")
     ELSE DispatchOnPath(url_struct)

-----------------------------------------------------------------------------
(* The URLs the resolver is run on: scheme, host, path, query, fragment *)

S_https == <<"h", "t", "t", "p", "s", ":", "/", "/">>
S_example_com == <<"e", "x", "a", "m", "p", "l", "e", ".", "c", "o", "m">>
S_unknown == <<"u", "n", "k", "n", "o", "w", "n">>
S_12 == <<"1", "2">>
S_Name == <<"N", "a", "m", "e">>
S_gid_1 == <<"g", "i", "d", "=", "1">>
S_gid_12 == <<"g", "i", "d", "=", "1", "2">>
S_pgid == <<"p", "g", "i", "d", "=">>
S_frag == <<"#", "x">>

Schemes == {<<>>, S_https}
\* the site's two hosts, a foreign host, and no host at all
Hosts == {S_www_imagefap_com, S_imagefap_com, S_example_com, <<>>}
FirstSegs == {S_gallery, S_pictures, S_photo, S_gallery_php, S_unknown, <<>>}
RestSegs == {S_12, S_Name, <<>>}
Params == {S_gid_1, S_gid_12, S_pgid}
Frags == {<<>>, S_frag}

\* the segment lists: none, or a first segment and up to MaxSegs - 1 more
SegLists ==
  {<<>>} \cup
  {s \in UNION {[1..n -> FirstSegs \cup RestSegs] : n \in 1..MaxSegs} :
     /\ s[1] \in FirstSegs
     /\ \A k \in 2..Len(s) : s[k] \in RestSegs}

ParamLists == UNION {[1..n -> Params] : n \in 0..MaxParams}

UrlParts ==
  [scheme : Schemes, host : Hosts, segs : SegLists, params : ParamLists,
   frag : Frags]

\* every segment is written after a '/'
RECURSIVE JoinSegs(_)
JoinSegs(segs) ==
  IF segs = <<>> THEN <<>> ELSE <<"/">> \o Head(segs) \o JoinSegs(Tail(segs))

\* the parameters are written after a '?', with '&' between them
RECURSIVE JoinParams(_)
JoinParams(ps) ==
  IF ps = <<>> THEN <<>>
  ELSE IF Len(ps) = 1 THEN Head(ps)
  ELSE Head(ps) \o <<"&">> \o JoinParams(Tail(ps))

UrlText(p) ==
  p.scheme \o p.host \o JoinSegs(p.segs)
    \o (IF p.params = <<>> THEN <<>> ELSE <<"?">> \o JoinParams(p.params))
    \o p.frag

-----------------------------------------------------------------------------
(* The resolver run on one URL *)

NoCall == [op |-> "none"]

InitRest ==
  /\ call = NoCall
  /\ cached_source_code = <<>>
  /\ trace = <<>>
  /\ dirs = {}
  /\ files = {}
  /\ pc = "idle"
  /\ gallery_id = <<>>
  /\ gallery_name = <<>>
  /\ image_urls = <<>>
  /\ done = 0
  /\ ncalls = 0

InitResolve ==
  /\ parts \in UrlParts
  /\ urlstr = UrlText(parts)
  /\ InitRest

\* one call of extract_gallery_id(urlstr)
CallExtractGalleryId ==
  /\ call.op = "none"
  /\ call' = [op |-> "extract_gallery_id", result |-> extract_gallery_id(urlstr)]
  /\ UNCHANGED <<parts, urlstr, cached_source_code, trace, dirs, files, pc, gallery_id,
                 gallery_name, image_urls, done, ncalls>>

NextResolve == CallExtractGalleryId

SpecResolve == InitResolve /\ [][NextResolve]_vars


-----------------------------------------------------------------------------
(* Gallery documents and the requests that fetch them *)

S_gallery_url ==
  <<"h", "t", "t", "p", ":", "/", "/", "w", "w", "w", ".", "i", "m", "a", "g",
    "e", "f", "a", "p", ".", "c", "o", "m", "/", "g", "a", "l", "l", "e", "r",
    "y", ".", "p", "h", "p", "?", "g", "i", "d", "=">>
S_photo_prefix == <<"/", "p", "h", "o", "t", "o", "/">>

\* the hrefs of the anchors of a gallery page
H_rel_1 == <<"/", "p", "h", "o", "t", "o", "/", "5", "/", "?", "g", "i", "d", "=", "1">>
H_abs_1 ==
  <<"h", "t", "t", "p", "s", ":", "/", "/", "w", "w", "w", ".", "i", "m", "a",
    "g", "e", "f", "a", "p", ".", "c", "o", "m", "/", "p", "h", "o", "t", "o",
    "/", "5", "/", "?", "g", "i", "d", "=", "1">>
H_rel_12 ==
  <<"/", "p", "h", "o", "t", "o", "/", "6", "/", "?", "g", "i", "d", "=", "1", "2">>
H_rel_2 ==
  <<"/", "p", "h", "o", "t", "o", "/", "7", "/", "?", "p", "g", "i", "d", "=",
    "&", "g", "i", "d", "=", "2">>
H_gallery ==
  <<"/", "g", "a", "l", "l", "e", "r", "y", ".", "p", "h", "p", "?", "g", "i",
    "d", "=", "1">>
H_deep == <<"/", "p", "h", "o", "t", "o", "/", "8", "/", "x", "?", "g", "i", "d", "=", "1">>
H_noslash == <<"p", "h", "o", "t", "o", "/", "9", "/", "?", "g", "i", "d", "=", "1">>

\* elem.get("href"): the attribute, or None for an anchor without one
Hrefs ==
  {<<H_rel_1>>, <<H_abs_1>>, <<H_rel_12>>, <<H_rel_2>>, <<H_gallery>>,
   <<H_deep>>, <<H_noslash>>, <<>>}

GalleryIds == {<<"1">>, <<"1", "2">>, <<"2">>}

AnchorLists == UNION {[1..n -> Hrefs] : n \in 0..MaxAnchors}

\* a parsed document: the contents of its <title> elements and the hrefs of its
\* <a> elements, each in document order
S_title == <<"g">>

Document(titles, anchors) == [titles |-> titles, anchors |-> anchors]

Docs == {Document(<<S_title>>, a) : a \in AnchorLists}

\* one entry of the trace
Event(kind, url, ok, body, idx) ==
  [kind |-> kind, url |-> url, ok |-> ok, body |-> body, idx |-> idx]

\* CacheHit for a cache that is never read
CacheHit_Never(cache) == FALSE

\* line 53: the cached copy is used when there is one
CacheHit(cache) == cache # <<>>

\* get_gallery_source, lines 48-57. resp is what requests.get meets: <<>> for a
\* transport failure (requests raises), <<document>> for a response.
get_gallery_source(cache, tr, id, resp) ==
  IF CacheHit(cache)
  THEN [cache |-> cache, trace |-> tr, result |-> Return(cache[1])]
  ELSE LET ev == Event("gallery", S_gallery_url \o id, resp # <<>>, resp, 0)
       IN IF resp = <<>>
          THEN [cache |-> cache, trace |-> Append(tr, ev),
                result |-> Raise("FetchError")]
          ELSE [cache |-> resp, trace |-> Append(tr, ev),
                result |-> Return(resp[1])]

\* get_gallery_name, lines 61-67: select("title")[0] of the source
get_gallery_name(cache, tr, id, resp) ==
  LET src == get_gallery_source(cache, tr, id, resp)
  IN IF src.result.kind = "raise" THEN src
     ELSE IF src.result.value.titles = <<>>
          THEN [src EXCEPT !.result = Raise("IndexError")]
          ELSE [src EXCEPT !.result = Return(src.result.value.titles[1])]

-----------------------------------------------------------------------------
(* get_image_URLs, lines 70-104 *)

\* lines 83-84
Absolute(link) == IF startswith(link, <<"/">>) THEN S_base \o link ELSE link

\* IsNew without the test: every link is appended
IsNew_Always(link, links) == TRUE

\* line 85: link not in links
IsNew(link, links) == \A k \in 1..Len(links) : links[k] # link

\* lines 81-86: None.startswith raises AttributeError
RECURSIVE CollectLinks(_, _)
CollectLinks(elems, links) ==
  IF elems = <<>> THEN Return(links)
  ELSE IF Head(elems) = <<>> THEN Raise("AttributeError")
  ELSE LET link == Absolute(Head(elems)[1])
       IN CollectLinks(Tail(elems),
                       IF IsNew(link, links) THEN Append(links, link) ELSE links)

\* the length of the run of \w characters of s that starts at position i
RECURSIVE WordRun(_, _)
WordRun(s, i) ==
  IF i > Len(s) \/ s[i] \notin WordChars THEN 0 ELSE 1 + WordRun(s, i + 1)

\* lines 93-94: re.compile("\/photo\/(\w+)\/").match(path), a match at the start
\* of path; \w+ takes the whole run, and the '/' after it is no \w character
PhotoPathMatch(path) ==
  LET n == WordRun(path, 8)
  IN /\ startswith(path, S_photo_prefix)
     /\ n >= 1
     /\ Len(path) >= 8 + n
     /\ path[8 + n] = "/"

\* lines 98-99: query_str in url_struct.query
HasGalleryId(query, id) == contains(query, S_gid \o id)

\* lines 90-102
IsImagePage(link, id) ==
  /\ PhotoPathMatch(urlparse(link).path)
  /\ HasGalleryId(urlparse(link).query, id)

RECURSIVE FilterLinks(_, _)
FilterLinks(links, id) ==
  IF links = <<>> THEN <<>>
  ELSE (IF IsImagePage(Head(links), id) THEN <<Head(links)>> ELSE <<>>)
         \o FilterLinks(Tail(links), id)

\* lines 76-104, on the source get_gallery_source gave
ImageURLsOf(html_code, id) ==
  LET links == CollectLinks(html_code.anchors, <<>>)
  IN IF links.kind = "raise" THEN links
     ELSE Return(FilterLinks(links.value, id))

get_image_URLs(cache, tr, id, resp) ==
  LET src == get_gallery_source(cache, tr, id, resp)
  IN IF src.result.kind = "raise" THEN src
     ELSE [src EXCEPT !.result = ImageURLsOf(src.result.value, id)]

-----------------------------------------------------------------------------
(* get_image_URLs on a fresh process, for every document the site may serve *)

InitLinks ==
  /\ parts = <<>>
  /\ urlstr = <<>>
  /\ InitRest

CallRecord(op, id, r) == [op |-> op, gallery_id |-> id, result |-> r.result]

CallGetImageURLs ==
  /\ ncalls < MaxCalls
  /\ \E id \in GalleryIds, resp \in {<<>>} \cup {<<d>> : d \in Docs} :
       LET r == get_image_URLs(cached_source_code, trace, id, resp)
       IN /\ cached_source_code' = r.cache
          /\ trace' = r.trace
          /\ call' = CallRecord("get_image_URLs", id, r)
  /\ ncalls' = ncalls + 1
  /\ UNCHANGED <<parts, urlstr, dirs, files, pc, gallery_id, gallery_name,
                 image_urls, done>>

NextLinks == ncalls = 0 /\ CallGetImageURLs

SpecLinks == InitLinks /\ [][NextLinks]_vars

-----------------------------------------------------------------------------
(* Sequences of calls of the gallery-source functions in one process *)

\* two documents that differ, as the site serves them
DocA == Document(<<S_title>>, <<<<H_rel_1>>, <<H_rel_12>>>>)
DocB == Document(<<>>, <<<<H_rel_2>>, <<>>>>)
Served == {<<>>, <<DocA>>, <<DocB>>}

CallGetGallerySource ==
  /\ ncalls < MaxCalls
  /\ \E id \in GalleryIds, resp \in Served :
       LET r == get_gallery_source(cached_source_code, trace, id, resp)
       IN /\ cached_source_code' = r.cache
          /\ trace' = r.trace
          /\ call' = CallRecord("get_gallery_source", id, r)
  /\ ncalls' = ncalls + 1
  /\ UNCHANGED <<parts, urlstr, dirs, files, pc, gallery_id, gallery_name,
                 image_urls, done>>

CallGetGalleryName ==
  /\ ncalls < MaxCalls
  /\ \E id \in GalleryIds, resp \in Served :
       LET r == get_gallery_name(cached_source_code, trace, id, resp)
       IN /\ cached_source_code' = r.cache
          /\ trace' = r.trace
          /\ call' = CallRecord("get_gallery_name", id, r)
  /\ ncalls' = ncalls + 1
  /\ UNCHANGED <<parts, urlstr, dirs, files, pc, gallery_id, gallery_name,
                 image_urls, done>>

CallGetImageURLsServed ==
  /\ ncalls < MaxCalls
  /\ \E id \in GalleryIds, resp \in Served :
       LET r == get_image_URLs(cached_source_code, trace, id, resp)
       IN /\ cached_source_code' = r.cache
          /\ trace' = r.trace
          /\ call' = CallRecord("get_image_URLs", id, r)
  /\ ncalls' = ncalls + 1
  /\ UNCHANGED <<parts, urlstr, dirs, files, pc, gallery_id, gallery_name,
                 image_urls, done>>

NextCache ==
  \/ CallGetGallerySource
  \/ CallGetGalleryName
  \/ CallGetImageURLsServed

SpecCache == InitLinks /\ [][NextCache]_vars

-----------------------------------------------------------------------------
(* download_image, lines 106-129 *)

S_None == <<"N", "o", "n", "e">>

\* the #mainPhoto elements of a photo page: elem.get('title') and
\* elem.get('src'), each None for an element without the attribute
Element(title, src) == [title |-> title, src |-> src]

E_a == Element(<<<<"a">>>>, <<<<"s", "1">>>>)
E_b == Element(<<<<"b">>>>, <<<<"s", "2">>>>)
E_untitled == Element(<<>>, <<<<"s", "1">>>>)
E_bare == Element(<<>>, <<>>)
Elems == {E_a, E_b, E_untitled, E_bare}

Pages == UNION {[1..n -> Elems] : n \in 0..MaxElems}

\* what one call of download_image meets: the photo page (<<>> when the request
\* fails), whether makedirs succeeds, the payload (<<>> when the request
\* fails), and how open and write end
Envs ==
  [page : {<<>>} \cup {<<p>> : p \in Pages},
   mkdir : BOOLEAN,
   payload : {<<>>, <<"b1">>, <<"b2">>},
   write : {"ok", "open_fails", "write_fails"}]

\* f"{x}" of an optional string
Str(x) == IF x = <<>> THEN S_None ELSE x[1]

\* open(path, 'wb') and f.write(data): the file at path holds data
Put(fs, path, data) ==
  {f \in fs : f.path # path} \cup {[path |-> path, data |-> data]}

Outcome(tr, d, f, r) == [trace |-> tr, dirs |-> d, files |-> f, result |-> r]

\* NoMainPhoto for a page without a main photo that is passed over in silence
NoMainPhoto_Ignored == Return(<<>>)

\* line 119
NoMainPhoto == Raise("MissingPhotoError")

download_image(image_url, dl_path, idx, st, env) ==
  LET t1 == Append(st.trace, Event("page", image_url, env.page # <<>>, env.page, idx))
  IN IF env.page = <<>>                                         \* line 111 raises
     THEN Outcome(t1, st.dirs, st.files, Raise("FetchError"))
     ELSE IF Len(env.page[1]) = 0                               \* lines 118-119
     THEN Outcome(t1, st.dirs, st.files, NoMainPhoto)
     ELSE
       LET elem == env.page[1][1]                               \* line 121
           image_title == elem.title
           image_src_url == elem.src
           t2 == Append(t1, Event("makedirs", dl_path, env.mkdir, <<>>, idx))
           d2 == st.dirs \cup {dl_path}
           t3 == Append(t2, Event("payload", Str(image_src_url),
                                  env.payload # <<>>, env.payload, idx))
           path == dl_path \o <<"/">> \o Str(image_title)
           t4 == Append(t3, Event("write", path, env.write = "ok", env.payload, idx))
       IN IF ~env.mkdir                                         \* line 126 raises
          THEN Outcome(t2, st.dirs, st.files, Raise("OSError"))
          ELSE IF image_src_url = <<>>                          \* requests.get(None)
          THEN Outcome(t2, d2, st.files, Raise("FetchError"))
          ELSE IF env.payload = <<>>                            \* line 127 raises
          THEN Outcome(t3, d2, st.files, Raise("FetchError"))
          ELSE IF env.write = "open_fails"                      \* line 128 raises
          THEN Outcome(t4, d2, st.files, Raise("OSError"))
          ELSE IF env.write = "write_fails"                     \* line 129 raises
          THEN Outcome(t4, d2, Put(st.files, path, ""), Raise("OSError"))
          ELSE Outcome(t4, d2, Put(st.files, path, env.payload[1]), Return(<<>>))

-----------------------------------------------------------------------------
(* download_image run once, on a filesystem that may hold earlier downloads *)

DlPath == <<"g">>
OldFile == [path |-> DlPath \o <<"/">> \o <<"a">>, data |-> "old"]
ImageUrls == {Absolute(H_rel_1), Absolute(H_rel_12)}

InitDownload ==
  /\ parts = <<>>
  /\ urlstr = <<>>
  /\ call = NoCall
  /\ cached_source_code = <<>>
  /\ trace = <<>>
  /\ \/ dirs = {} /\ files = {}
     \/ dirs = {DlPath} /\ files \in {{}, {OldFile}}
  /\ pc = "idle"
  /\ gallery_id = <<>>
  /\ gallery_name = <<>>
  /\ image_urls = <<>>
  /\ done = 0
  /\ ncalls = 0

CallDownloadImage ==
  /\ call.op = "none"
  /\ \E image_url \in ImageUrls, env \in Envs :
       LET r == download_image(image_url, DlPath, 1,
                               [trace |-> trace, dirs |-> dirs, files |-> files], env)
       IN /\ trace' = r.trace
          /\ dirs' = r.dirs
          /\ files' = r.files
          /\ call' = [op |-> "download_image", image_url |-> image_url,
                      dl_path |-> DlPath, result |-> r.result]
  /\ UNCHANGED <<parts, urlstr, cached_source_code, pc, gallery_id,
                 gallery_name, image_urls, done, ncalls>>

NextDownload == CallDownloadImage

SpecDownload == InitDownload /\ [][NextDownload]_vars

-----------------------------------------------------------------------------
(* main, lines 132-167 *)

\* urlstr is the literal of line 136, which the user of the script replaces by
\* the gallery wanted: the shape of that literal, a foreign host, and a URL of
\* the site without a path
MainUrls ==
  {[scheme |-> S_https, host |-> S_www_imagefap_com, segs |-> <<S_gallery_php>>,
    params |-> <<S_gid_1>>, frag |-> <<>>],
   [scheme |-> S_https, host |-> S_example_com, segs |-> <<S_gallery, S_12>>,
    params |-> <<>>, frag |-> <<>>],
   [scheme |-> S_https, host |-> S_www_imagefap_com, segs |-> <<>>,
    params |-> <<>>, frag |-> <<>>]}

\* what the site serves for the gallery
DocNoHref == Document(<<S_title>>, <<<<H_rel_1>>, <<>>>>)
DocEmpty == Document(<<S_title>>, <<>>)
MainServed == {<<>>, <<DocA>>, <<DocB>>, <<DocNoHref>>, <<DocEmpty>>}

InitMain ==
  /\ parts \in MainUrls
  /\ urlstr = UrlText(parts)
  /\ call = NoCall
  /\ cached_source_code = <<>>
  /\ trace = <<>>
  /\ dirs = {}
  /\ files = {}
  /\ pc = "robots"
  /\ gallery_id = <<>>
  /\ gallery_name = <<>>
  /\ image_urls = <<>>
  /\ done = 0
  /\ ncalls = 0

\* AfterRobots with the verdict of can_fetch not looked at
AfterRobots_Ignored(verdict) ==
  IF verdict = "unreachable" THEN "aborted" ELSE "resolve"

\* lines 144-146: a verdict other than "allowed" raises; rp.read() raising
\* ends main too
AfterRobots(verdict) == IF verdict = "allow" THEN "resolve" ELSE "aborted"

\* lines 139-146: rp.read() fetches robots.txt (it raises when the site cannot
\* be reached) and rp.can_fetch("*", urlstr) gives the verdict
MainCheckRobots ==
  /\ pc = "robots"
  /\ \E verdict \in {"allow", "deny", "unreachable"} :
       /\ trace' = Append(trace, Event("robots", urlstr, verdict # "unreachable",
                                       verdict, 0))
       /\ pc' = AfterRobots(verdict)
       /\ call' = [op |-> "robots", verdict |-> verdict]
  /\ UNCHANGED <<parts, urlstr, cached_source_code, dirs, files, gallery_id,
                 gallery_name, image_urls, done, ncalls>>

\* line 151
MainExtractGalleryId ==
  /\ pc = "resolve"
  /\ LET r == extract_gallery_id(urlstr)
     IN /\ call' = [op |-> "extract_gallery_id", result |-> r]
        /\ gallery_id' = IF r.kind = "return" THEN r.value ELSE gallery_id
        /\ pc' = IF r.kind = "return" THEN "name" ELSE "aborted"
  /\ UNCHANGED <<parts, urlstr, cached_source_code, trace, dirs, files,
                 gallery_name, image_urls, done, ncalls>>

\* line 152
MainGetGalleryName ==
  /\ pc = "name"
  /\ \E resp \in MainServed :
       LET r == get_gallery_name(cached_source_code, trace, gallery_id, resp)
       IN /\ cached_source_code' = r.cache
          /\ trace' = r.trace
          /\ call' = CallRecord("get_gallery_name", gallery_id, r)
          /\ gallery_name' = IF r.result.kind = "return" THEN r.result.value
                             ELSE gallery_name
          /\ pc' = IF r.result.kind = "return" THEN "urls" ELSE "aborted"
  /\ UNCHANGED <<parts, urlstr, dirs, files, gallery_id, image_urls, done, ncalls>>

\* line 155
MainGetImageURLs ==
  /\ pc = "urls"
  /\ \E resp \in MainServed :
       LET r == get_image_URLs(cached_source_code, trace, gallery_id, resp)
       IN /\ cached_source_code' = r.cache
          /\ trace' = r.trace
          /\ call' = CallRecord("get_image_URLs", gallery_id, r)
          /\ image_urls' = IF r.result.kind = "return" THEN r.result.value
                           ELSE image_urls
          /\ pc' = IF r.result.kind = "return" THEN "download" ELSE "aborted"
  /\ UNCHANGED <<parts, urlstr, dirs, files, gallery_id, gallery_name, done, ncalls>>

\* AfterDownload for a loop that carries on after an exception
AfterDownload_CarryOn(r) == "download"

\* lines 161-167: an exception of download_image leaves the loop and main
AfterDownload(r) == IF r.kind = "return" THEN "download" ELSE "aborted"

\* lines 161-162: one pass of the loop
MainDownloadImage ==
  /\ pc = "download"
  /\ done < Len(image_urls)
  /\ \E env \in Envs :
       LET r == download_image(image_urls[done + 1], gallery_name, done + 1,
                               [trace |-> trace, dirs |-> dirs, files |-> files], env)
       IN /\ trace' = r.trace
          /\ dirs' = r.dirs
          /\ files' = r.files
          /\ call' = [op |-> "download_image", image_url |-> image_urls[done + 1],
                      dl_path |-> gallery_name, result |-> r.result]
          /\ done' = IF r.result.kind = "return" THEN done + 1 ELSE done
          /\ pc' = AfterDownload(r.result)
  /\ UNCHANGED <<parts, urlstr, cached_source_code, gallery_id, gallery_name,
                 image_urls, ncalls>>

\* lines 163-165: the loop is over
MainFinish ==
  /\ pc = "download"
  /\ done = Len(image_urls)
  /\ pc' = "finished"
  /\ UNCHANGED <<parts, urlstr, call, cached_source_code, trace, dirs, files,
                 gallery_id, gallery_name, image_urls, done, ncalls>>

NextMain ==
  \/ MainCheckRobots
  \/ MainExtractGalleryId
  \/ MainGetGalleryName
  \/ MainGetImageURLs
  \/ MainDownloadImage
  \/ MainFinish

SpecMain == InitMain /\ [][NextMain]_vars

-----------------------------------------------------------------------------
(* The claims about extract_gallery_id, under SpecResolve *)

Resolved == call.op = "extract_gallery_id"

\* the URL was written with one of the two hosts of the site
OnTargetHost == parts.host \in {S_www_imagefap_com, S_imagefap_com}

BeginsWithGid(q) == Len(q) >= 4 /\ SubSeq(q, 1, 4) = S_gid

GidParams == {k \in 1..Len(parts.params) : BeginsWithGid(parts.params[k])}

FirstGidParam ==
  parts.params[CHOOSE k \in GidParams : \A j \in GidParams : k <= j]

\* C1: on the site's hosts, a URL whose first path segment is 'gallery' or
\* 'pictures' and that has a second segment resolves to that segment verbatim;
\* one whose first segment is 'photo' or 'gallery.php' and that has a query
\* parameter beginning with 'gid=' resolves to the text after 'gid=' of the
\* first such parameter.
C1_IdentityOfEachShape ==
  (Resolved /\ OnTargetHost /\ parts.segs # <<>>) =>
    /\ (parts.segs[1] \in {S_gallery, S_pictures} /\ Len(parts.segs) >= 2)
         => call.result = Return(parts.segs[2])
    /\ (parts.segs[1] \in {S_photo, S_gallery_php} /\ GidParams # {})
         => call.result = Return(Drop(FirstGidParam, 4))

\* a photo URL with two gid= parameters resolved to the value of the first
C1_Witness ==
  /\ Resolved
  /\ OnTargetHost
  /\ parts.segs = <<S_photo, S_12>>
  /\ parts.params = <<S_gid_12, S_gid_1>>
  /\ call.result = Return(<<"1", "2">>)

\* C2: a URL whose host is not one of the site's two hosts fails with
\* InvalidDomainError, whatever its path and query, with or without a scheme.
C2_ForeignHostFails ==
  (Resolved /\ ~OnTargetHost) =>
    /\ call.result.kind = "raise"
    /\ call.result.error = "InvalidDomainError"

\* a scheme-less URL of a foreign host, of the gallery shape, was refused
C2_Witness ==
  /\ Resolved
  /\ parts.scheme = <<>>
  /\ parts.host = S_example_com
  /\ parts.segs = <<S_gallery, S_12>>
  /\ call.result.error = "InvalidDomainError"

\* C3: on the site's hosts, a URL whose first path segment is none of the four
\* known ones fails with UnrecognizedURLFormatError, and so does one whose first
\* segment is 'photo' or 'gallery.php' when no query parameter begins with
\* 'gid='.
C3_UnknownShapeFails ==
  (Resolved /\ OnTargetHost /\ parts.segs # <<>>) =>
    /\ parts.segs[1] \notin {S_gallery, S_pictures, S_photo, S_gallery_php}
         => call.result.error = "UnrecognizedURLFormatError"
    /\ (parts.segs[1] \in {S_photo, S_gallery_php} /\ GidParams = {})
         => call.result.error = "UnrecognizedURLFormatError"

\* a photo URL whose only parameter is pgid= was refused
C3_Witness ==
  /\ Resolved
  /\ OnTargetHost
  /\ parts.segs = <<S_photo, S_12>>
  /\ parts.params = <<S_pgid>>
  /\ call.result.error = "UnrecognizedURLFormatError"

\* C10: on the site's hosts every URL, one with no path segment and one with a
\* lone 'gallery' or 'pictures' segment included, either resolves or fails with
\* UnrecognizedURLFormatError.
C10_TotalOnTargetHost ==
  (Resolved /\ OnTargetHost) =>
    \/ call.result.kind = "return"
    \/ call.result.error = "UnrecognizedURLFormatError"

-----------------------------------------------------------------------------
(* The claims about get_image_URLs, under SpecLinks *)

Extracted == call.op = "get_image_URLs" /\ call.result.kind = "return"

\* the values of the gid parameters of a link
GidValuesOf(link) ==
  LET qs == split(urlparse(link).query, "&")
  IN {Drop(qs[k], 4) : k \in {j \in 1..Len(qs) : BeginsWithGid(qs[j])}}

\* C4: every link get_image_URLs returns for an identity has that identity as
\* the value of its gid parameter, and no gid parameter with another value.
C4_OnlyLinksOfTheGallery ==
  Extracted =>
    \A k \in 1..Len(call.result.value) :
      GidValuesOf(call.result.value[k]) = {call.gallery_id}

\* an href in absolute form
AbsoluteForm(h) == IF Len(h) >= 1 /\ h[1] = "/" THEN S_base \o h ELSE h

\* the anchors of the document the call read, in absolute form
SourceLinks ==
  LET a == cached_source_code[1].anchors
  IN [k \in 1..Len(a) |-> AbsoluteForm(a[k][1])]

FirstAt(seq, x) ==
  CHOOSE k \in 1..Len(seq) : seq[k] = x /\ \A j \in 1..(k - 1) : seq[j] # x

\* path begins with /photo/, one or more word characters, and a '/'
PhotoShape(path) ==
  \E n \in 1..Len(path) :
    /\ Len(path) >= 8 + n
    /\ SubSeq(path, 1, 7) = S_photo_prefix
    /\ \A j \in 8..(7 + n) : path[j] \in WordChars
    /\ path[8 + n] = "/"

\* C5: the list get_image_URLs returns holds no link twice, holds links of the
\* document only (in absolute form), in the order of their first occurrence in
\* the document, and the path of each begins with /photo/<word characters>/.
C5_OrderedSetOfPhotoLinks ==
  Extracted =>
    LET out == call.result.value
    IN /\ \A i, j \in 1..Len(out) : out[i] = out[j] => i = j
       /\ \A i \in 1..Len(out) : \E k \in 1..Len(SourceLinks) : SourceLinks[k] = out[i]
       /\ \A i, j \in 1..Len(out) :
            i < j => FirstAt(SourceLinks, out[i]) < FirstAt(SourceLinks, out[j])
       /\ \A i \in 1..Len(out) : PhotoShape(urlparse(out[i]).path)

\* a relative href, another link, and the absolute form of the first href gave
\* two links, the first href's once
C5_Witness ==
  /\ Extracted
  /\ call.gallery_id = <<"1">>
  /\ cached_source_code[1].anchors = <<<<H_rel_1>>, <<H_deep>>, <<H_abs_1>>>>
  /\ call.result.value = <<H_abs_1, S_base \o H_deep>>

-----------------------------------------------------------------------------
(* The claim about get_gallery_source, under SpecCache *)

\* the gallery fetches of a trace that got a document
Succeeded(tr) == {k \in 1..Len(tr) : tr[k].kind = "gallery" /\ tr[k].ok}

TheFetch(tr) == tr[CHOOSE k \in Succeeded(tr) : TRUE]

-----------------------------------------------------------------------------
(* The claim about download_image, under SpecDownload *)

\* C7: with a photo page of exactly one #mainPhoto element, a call whose
\* requests and filesystem operations all succeed fetches the payload from the
\* element's src and leaves the filesystem as it was but for the file
\* <dl_path>/<title>, which holds the payload; with a page of no such element
\* the call fails with MissingPhotoError having issued the page request only,
\* with no directory and no file changed.
C7_OneFileOrMissingPhoto ==
  [][ call'.op = "download_image" =>
        LET page == trace'[Len(trace) + 1]
            rest == SubSeq(trace', Len(trace) + 2, Len(trace'))
        IN /\ page.kind = "page"
           /\ page.url = call'.image_url
           /\ (page.ok /\ Len(page.body[1]) = 0) =>
                /\ call'.result.kind = "raise"
                /\ call'.result.error = "MissingPhotoError"
                /\ rest = <<>>
                /\ dirs' = dirs
                /\ files' = files
           /\ ( /\ page.ok
                /\ Len(page.body[1]) = 1
                /\ page.body[1][1].src # <<>>
                /\ page.body[1][1].title # <<>>
                /\ \A k \in 1..Len(rest) : rest[k].ok ) =>
                LET elem == page.body[1][1]
                    path == call'.dl_path \o <<"/">> \o elem.title[1]
                    fetched == {k \in 1..Len(rest) : rest[k].kind = "payload"}
                IN /\ call'.result.kind = "return"
                   /\ Cardinality(fetched) = 1
                   /\ \A k \in fetched :
                        /\ rest[k].url = elem.src[1]
                        /\ files' = {f \in files : f.path # path}
                                      \cup {[path |-> path, data |-> rest[k].body[1]]}
      ]_vars

\* a page without a main photo was refused, and the file of an earlier download
\* is as it was
C7_Witness ==
  /\ call.op = "download_image"
  /\ Len(trace) = 1
  /\ trace[1].ok
  /\ trace[1].body[1] = <<>>
  /\ call.result.error = "MissingPhotoError"
  /\ dirs = {DlPath}
  /\ files = {OldFile}

-----------------------------------------------------------------------------
(* The claims about main, under SpecMain *)

CoreFetch(e) == e.kind \in {"gallery", "page", "payload"}

\* C8: the requests and writes of the downloads come in the order of
\* image_urls, those of link i + 1 after the file of link i was written; a
\* request or an operation that fails is the last one of the run; and nothing
\* is done twice for one link.
C8_OneLinkAtATimeUntilFailure ==
  /\ \A j, k \in 1..Len(trace) : j < k => trace[j].idx <= trace[k].idx
  /\ \A k \in 1..Len(trace) :
       trace[k].kind = "page" => trace[k].url = image_urls[trace[k].idx]
  /\ \A k \in 1..Len(trace) :
       trace[k].idx >= 2 =>
         \E j \in 1..(k - 1) :
           /\ trace[j].kind = "write"
           /\ trace[j].ok
           /\ trace[j].idx = trace[k].idx - 1
  /\ \A k \in 1..Len(trace) :
       ~trace[k].ok => (k = Len(trace) /\ pc = "aborted")
  /\ \A j, k \in 1..Len(trace) :
       (trace[j].idx >= 1 /\ trace[j].idx = trace[k].idx
          /\ trace[j].kind = trace[k].kind) => j = k
  /\ (pc = "aborted" /\ call.op = "download_image") =>
       /\ call.result.kind = "raise"
       /\ \A k \in 1..Len(trace) : trace[k].idx <= done + 1

\* two links were downloaded, one after the other, and main finished
C8_Witness ==
  /\ pc = "finished"
  /\ done = 2
  /\ Len(image_urls) = 2
  /\ \E j, k \in 1..Len(trace) :
       /\ j < k
       /\ trace[j].kind = "write" /\ trace[j].idx = 1
       /\ trace[k].kind = "page" /\ trace[k].idx = 2

=============================================================================
